---- MODULE Spec2Model ----
(***************************************************************************)
(* finalize-performance-report.py: one run of main() reads a report        *)
(* template, a results listing and an analysis fragment, counts the        *)
(* success markers, picks the canned sections, substitutes the five        *)
(* placeholders, inserts the analysis after the heading with re.sub and    *)
(* overwrites the report file.                                             *)
(*                                                                         *)
(* Text is a sequence of characters.  A printable ASCII character is the   *)
(* one-character string itself, "\n" and "\t" are newline and tab, and     *)
(* every other character is written by its code point, "U+76EE".           *)
(***************************************************************************)
EXTENDS Integers, Sequences, FiniteSets, TLC

(***************************************************************************)
(* String literals of the script.                                          *)
(***************************************************************************)
\* line 46: the success marker counted in the results text
CHECK_MARK == <<"U+2705">>

\* line 109
RESULTS_PLACEHOLDER ==
    <<"R", "E", "S", "U", "L", "T", "S", "_", "P", "L", "A", "C", "E", "H", "O", "L", "D", "E",
      "R">>

\* line 110
ACHIEVEMENT_ANALYSIS_PLACEHOLDER ==
    <<"A", "C", "H", "I", "E", "V", "E", "M", "E", "N", "T", "_", "A", "N", "A", "L", "Y", "S",
      "I", "S", "_", "P", "L", "A", "C", "E", "H", "O", "L", "D", "E", "R">>

\* line 111
PERFORMANCE_EVALUATION_PLACEHOLDER ==
    <<"P", "E", "R", "F", "O", "R", "M", "A", "N", "C", "E", "_", "E", "V", "A", "L", "U", "A",
      "T", "I", "O", "N", "_", "P", "L", "A", "C", "E", "H", "O", "L", "D", "E", "R">>

\* line 112
RECOMMENDATIONS_PLACEHOLDER ==
    <<"R", "E", "C", "O", "M", "M", "E", "N", "D", "A", "T", "I", "O", "N", "S", "_", "P", "L",
      "A", "C", "E", "H", "O", "L", "D", "E", "R">>

\* line 113
CONCLUSION_PLACEHOLDER ==
    <<"C", "O", "N", "C", "L", "U", "S", "I", "O", "N", "_", "P", "L", "A", "C", "E", "H", "O",
      "L", "D", "E", "R">>

\* line 117: the text the pattern r'(### 目標達成状況)' matches
HEADING ==
    <<"#", "#", "#", " ", "U+76EE", "U+6A19", "U+9054", "U+6210", "U+72B6", "U+6CC1">>

\* line 118: the raw string r'\1\n' (four characters)
REPL_PREFIX ==
    <<"\\", "1", "\\", "n">>

\* line 14
MSG_ARGS ==
    <<"U+30A8", "U+30E9", "U+30FC", ":", " ", "U+5F15", "U+6570", "U+304C", "U+4E0D", "U+8DB3",
      "U+3057", "U+3066", "U+3044", "U+307E", "U+3059">>

\* line 15, before sys.argv[0]
MSG_USAGE_HEAD ==
    <<"U+4F7F", "U+7528", "U+65B9", "U+6CD5", ":", " ">>

\* line 15, after sys.argv[0]
MSG_USAGE_TAIL ==
    <<" ", "<", "r", "e", "p", "o", "r", "t", "-", "f", "i", "l", "e", ">", " ", "<", "r", "e",
      "s", "u", "l", "t", "s", "-", "f", "i", "l", "e", ">", " ", "<", "a", "n", "a", "l", "y",
      "s", "i", "s", "-", "f", "i", "l", "e", ">">>

\* line 24
MSG_NO_REPORT ==
    <<"U+30A8", "U+30E9", "U+30FC", ":", " ", "U+30EC", "U+30DD", "U+30FC", "U+30C8", "U+30D5",
      "U+30A1", "U+30A4", "U+30EB", "U+304C", "U+898B", "U+3064", "U+304B", "U+308A", "U+307E",
      "U+305B", "U+3093", ":", " ">>

\* line 28
MSG_NO_RESULTS ==
    <<"U+30A8", "U+30E9", "U+30FC", ":", " ", "U+7D50", "U+679C", "U+30D5", "U+30A1", "U+30A4",
      "U+30EB", "U+304C", "U+898B", "U+3064", "U+304B", "U+308A", "U+307E", "U+305B", "U+3093",
      ":", " ">>

\* line 32
MSG_NO_ANALYSIS ==
    <<"U+30A8", "U+30E9", "U+30FC", ":", " ", "U+5206", "U+6790", "U+30D5", "U+30A1", "U+30A4",
      "U+30EB", "U+304C", "U+898B", "U+3064", "U+304B", "U+308A", "U+307E", "U+305B", "U+3093",
      ":", " ">>

\* line 126
MSG_DONE ==
    <<"U+2713", " ", "U+30EC", "U+30DD", "U+30FC", "U+30C8", "U+3092", "U+5B8C", "U+6210",
      "U+3055", "U+305B", "U+307E", "U+3057", "U+305F", ":", " ">>

\* line 127 (and lines 63, 104)
MSG_RATE ==
    <<"U+9054", "U+6210", "U+7387", ":", " ">>

\* lines 57-59: every test reached its target
ANALYSIS_ALL ==
    <<"U+2705", " ", "*", "*", "U+3059", "U+3079", "U+3066", "U+306E", "U+30C6", "U+30B9",
      "U+30C8", "U+30B3", "U+30DE", "U+30F3", "U+30C9", "U+304C", "U+76EE", "U+6A19", "U+6642",
      "U+9593", "U+3092", "U+9054", "U+6210", "U+3057", "U+307E", "U+3057", "U+305F", "U+FF01",
      "*", "*", "\n", "\n", "U+30D1", "U+30D5", "U+30A9", "U+30FC", "U+30DE", "U+30F3",
      "U+30B9", "U+6539", "U+5584", "U+306E", "U+52B9", "U+679C", "U+304C", "U+78BA", "U+8A8D",
      "U+3067", "U+304D", "U+307E", "U+3057", "U+305F", "U+3002", "U+3059", "U+3079", "U+3066",
      "U+306E", "U+30C6", "U+30B9", "U+30C8", "U+304C", "U+76EE", "U+6A19", "U+6642", "U+9593",
      "U+5185", "U+306B", "U+5B8C", "U+4E86", "U+3057", "U+3066", "U+3044", "U+307E", "U+3059",
      "U+3002">>

\* lines 61-63, up to the rate
ANALYSIS_PARTIAL_HEAD ==
    <<"U+26A0", "U+FE0F", " ", "*", "*", "U+4E00", "U+90E8", "U+306E", "U+30C6", "U+30B9",
      "U+30C8", "U+30B3", "U+30DE", "U+30F3", "U+30C9", "U+304C", "U+76EE", "U+6A19", "U+6642",
      "U+9593", "U+3092", "U+9054", "U+6210", "U+3057", "U+307E", "U+3057", "U+305F", "*", "*",
      "\n", "\n", "U+9054", "U+6210", "U+7387", ":", " ">>

\* lines 63-65, after the counts
ANALYSIS_PARTIAL_TAIL ==
    <<"\n", "\n", "U+672A", "U+9054", "U+6210", "U+306E", "U+30C6", "U+30B9", "U+30C8",
      "U+30B3", "U+30DE", "U+30F3", "U+30C9", "U+306B", "U+3064", "U+3044", "U+3066", "U+306F",
      "U+3001", "U+3055", "U+3089", "U+306A", "U+308B", "U+6700", "U+9069", "U+5316", "U+304C",
      "U+5FC5", "U+8981", "U+3067", "U+3059", "U+3002">>

\* lines 67-69: no test reached its target
ANALYSIS_NONE ==
    <<"U+274C", " ", "*", "*", "U+3059", "U+3079", "U+3066", "U+306E", "U+30C6", "U+30B9",
      "U+30C8", "U+30B3", "U+30DE", "U+30F3", "U+30C9", "U+304C", "U+76EE", "U+6A19", "U+6642",
      "U+9593", "U+3092", "U+672A", "U+9054", "U+6210", "U+3067", "U+3059", "*", "*", "\n",
      "\n", "U+30D1", "U+30D5", "U+30A9", "U+30FC", "U+30DE", "U+30F3", "U+30B9", "U+6539",
      "U+5584", "U+304C", "U+5FC5", "U+8981", "U+3067", "U+3059", "U+3002", "U+4EE5", "U+4E0B",
      "U+306E", "U+63A8", "U+5968", "U+4E8B", "U+9805", "U+3092", "U+78BA", "U+8A8D", "U+3057",
      "U+3066", "U+304F", "U+3060", "U+3055", "U+3044", "U+3002">>

\* lines 72-78
PERFORMANCE_EVALUATION ==
    <<"U+6E2C", "U+5B9A", "U+7D50", "U+679C", "U+304B", "U+3089", "U+4EE5", "U+4E0B", "U+306E",
      "U+8A55", "U+4FA1", "U+3092", "U+884C", "U+3044", "U+307E", "U+3057", "U+305F", "U+FF1A",
      "\n", "\n", "-", " ", "*", "*", "U+6E2C", "U+5B9A", "U+56DE", "U+6570", "*", "*", ":",
      " ", "U+5404", "U+30B3", "U+30DE", "U+30F3", "U+30C9", "3", "U+56DE", "U+5B9F", "U+884C",
      "\n", "-", " ", "*", "*", "U+6E2C", "U+5B9A", "U+74B0", "U+5883", "*", "*", ":", " ", 
      "U+30ED", "U+30FC", "U+30AB", "U+30EB", "U+958B", "U+767A", "U+74B0", "U+5883", "\n",
      "-", " ", "*", "*", "U+6E2C", "U+5B9A", "U+7CBE", "U+5EA6", "*", "*", ":", " ", "U+5E73",
      "U+5747", "U+5024", "U+3092", "U+4F7F", "U+7528", "U+3057", "U+3066", "U+8A55", "U+4FA1",
      "\n", "\n", "U+5B9F", "U+884C", "U+6642", "U+9593", "U+306E", "U+3070", "U+3089",
      "U+3064", "U+304D", "U+304C", "U+5927", "U+304D", "U+3044", "U+5834", "U+5408", "U+306F",
      "U+3001", "U+6E2C", "U+5B9A", "U+74B0", "U+5883", "U+306E", "U+5F71", "U+97FF", "U+3092",
      "U+53D7", "U+3051", "U+3066", "U+3044", "U+308B", "U+53EF", "U+80FD", "U+6027", "U+304C",
      "U+3042", "U+308A", "U+307E", "U+3059", "U+3002">>

\* lines 82-86: three maintenance tips
RECOMMENDATIONS_KEEP ==
    <<"U+73FE", "U+5728", "U+306E", "U+30D1", "U+30D5", "U+30A9", "U+30FC", "U+30DE", "U+30F3",
      "U+30B9", "U+306F", "U+826F", "U+597D", "U+3067", "U+3059", "U+3002", "U+4EE5", "U+4E0B",
      "U+306E", "U+70B9", "U+306B", "U+6CE8", "U+610F", "U+3057", "U+3066", "U+7DAD", "U+6301",
      "U+3057", "U+3066", "U+304F", "U+3060", "U+3055", "U+3044", "U+FF1A", "\n", "\n", "1",
      ".", " ", "*", "*", "U+5B9A", "U+671F", "U+7684", "U+306A", "U+6E2C", "U+5B9A", "*", "*",
      ":", " ", "U+30D1", "U+30D5", "U+30A9", "U+30FC", "U+30DE", "U+30F3", "U+30B9", "U+306E",
      "U+52A3", "U+5316", "U+3092", "U+65E9", "U+671F", "U+306B", "U+691C", "U+51FA", "\n",
      "2", ".", " ", "*", "*", "U+30C6", "U+30B9", "U+30C8", "U+306E", "U+8FFD", "U+52A0", "*",
      "*", ":", " ", "U+65B0", "U+3057", "U+3044", "U+30C6", "U+30B9", "U+30C8", "U+3092",
      "U+8FFD", "U+52A0", "U+3059", "U+308B", "U+969B", "U+306F", "U+5B9F", "U+884C", "U+6642",
      "U+9593", "U+306B", "U+6CE8", "U+610F", "\n", "3", ".", " ", "*", "*", "C", "I", "/",
      "C", "D", "U+74B0", "U+5883", "U+3067", "U+306E", "U+78BA", "U+8A8D", "*", "*", ":", " ", 
      "U+30ED", "U+30FC", "U+30AB", "U+30EB", "U+74B0", "U+5883", "U+3060", "U+3051", "U+3067",
      "U+306A", "U+304F", "C", "I", "/", "C", "D", "U+74B0", "U+5883", "U+3067", "U+3082",
      "U+6E2C", "U+5B9A">>

\* lines 88-94: five improvement tips
RECOMMENDATIONS_IMPROVE ==
    <<"U+4EE5", "U+4E0B", "U+306E", "U+6539", "U+5584", "U+3092", "U+691C", "U+8A0E", "U+3057",
      "U+3066", "U+304F", "U+3060", "U+3055", "U+3044", "U+FF1A", "\n", "\n", "1", ".", " ", 
      "*", "*", "U+4E26", "U+5217", "U+5B9F", "U+884C", "U+306E", "U+6700", "U+9069", "U+5316",
      "*", "*", ":", " ", "m", "a", "x", "C", "o", "n", "c", "u", "r", "r", "e", "n", "c", "y",
      "U+306E", "U+8ABF", "U+6574", "\n", "2", ".", " ", "*", "*", "U+30C6", "U+30B9",
      "U+30C8", "U+5206", "U+96E2", "U+306E", "U+898B", "U+76F4", "U+3057", "*", "*", ":", " ", 
      "U+4E0D", "U+8981", "U+306A", "U+5206", "U+96E2", "U+3092", "U+524A", "U+6E1B", "\n",
      "3", ".", " ", "*", "*", "U+30BF", "U+30A4", "U+30E0", "U+30A2", "U+30A6", "U+30C8",
      "U+8A2D", "U+5B9A", "U+306E", "U+8ABF", "U+6574", "*", "*", ":", " ", "U+9069", "U+5207",
      "U+306A", "U+30BF", "U+30A4", "U+30E0", "U+30A2", "U+30A6", "U+30C8", "U+5024", "U+306E",
      "U+8A2D", "U+5B9A", "\n", "4", ".", " ", "*", "*", "U+30AB", "U+30D0", "U+30EC",
      "U+30C3", "U+30B8", "U+8A08", "U+7B97", "U+306E", "U+6700", "U+9069", "U+5316", "*", "*",
      ":", " ", "U+5FC5", "U+8981", "U+306A", "U+5834", "U+5408", "U+306E", "U+307F", "U+5B9F",
      "U+884C", "\n", "5", ".", " ", "*", "*", "U+30C6", "U+30B9", "U+30C8", "U+30C7",
      "U+30FC", "U+30BF", "U+306E", "U+6700", "U+9069", "U+5316", "*", "*", ":", " ", "U+30C6",
      "U+30B9", "U+30C8", "U+30C7", "U+30FC", "U+30BF", "U+306E", "U+30B5", "U+30A4", "U+30BA",
      "U+3092", "U+524A", "U+6E1B">>

\* lines 98-100
CONCLUSION_SUCCESS ==
    <<"U+30C6", "U+30B9", "U+30C8", "U+30D1", "U+30D5", "U+30A9", "U+30FC", "U+30DE", "U+30F3",
      "U+30B9", "U+6539", "U+5584", "U+306F", "U+6210", "U+529F", "U+3057", "U+307E", "U+3057",
      "U+305F", "U+3002", "U+3059", "U+3079", "U+3066", "U+306E", "U+30C6", "U+30B9", "U+30C8",
      "U+30B3", "U+30DE", "U+30F3", "U+30C9", "U+304C", "U+76EE", "U+6A19", "U+6642", "U+9593",
      "U+3092", "U+9054", "U+6210", "U+3057", "U+3066", "U+3044", "U+307E", "U+3059", "U+3002",
      "\n", "\n", "U+4ECA", "U+5F8C", "U+3082", "U+5B9A", "U+671F", "U+7684", "U+306A",
      "U+6E2C", "U+5B9A", "U+3092", "U+884C", "U+3044", "U+3001", "U+30D1", "U+30D5", "U+30A9",
      "U+30FC", "U+30DE", "U+30F3", "U+30B9", "U+306E", "U+7DAD", "U+6301", "U+306B", "U+52AA",
      "U+3081", "U+3066", "U+304F", "U+3060", "U+3055", "U+3044", "U+3002">>

\* lines 102-104, up to the rate
CONCLUSION_PARTIAL_HEAD ==
    <<"U+30C6", "U+30B9", "U+30C8", "U+30D1", "U+30D5", "U+30A9", "U+30FC", "U+30DE", "U+30F3",
      "U+30B9", "U+6539", "U+5584", "U+306F", "U+90E8", "U+5206", "U+7684", "U+306B", "U+6210",
      "U+529F", "U+3057", "U+307E", "U+3057", "U+305F", "U+3002", "\n", "\n", "U+9054",
      "U+6210", "U+7387", ":", " ", "*", "*">>

\* lines 104-106, after the counts
CONCLUSION_PARTIAL_TAIL ==
    <<"\n", "\n", "U+672A", "U+9054", "U+6210", "U+306E", "U+30C6", "U+30B9", "U+30C8",
      "U+30B3", "U+30DE", "U+30F3", "U+30C9", "U+306B", "U+3064", "U+3044", "U+3066", "U+306F",
      "U+3001", "U+63A8", "U+5968", "U+4E8B", "U+9805", "U+3092", "U+53C2", "U+8003", "U+306B",
      "U+3055", "U+3089", "U+306A", "U+308B", "U+6539", "U+5584", "U+3092", "U+884C", "U+3063",
      "U+3066", "U+304F", "U+3060", "U+3055", "U+3044", "U+3002">>

(***************************************************************************)
(* Python's str and re operations, as the script uses them.                *)
(***************************************************************************)
\* sub occurs in s at position i
MatchAt(s, sub, i) ==
    /\ i >= 1
    /\ i + Len(sub) - 1 <= Len(s)
    /\ \A k \in 1..Len(sub) : s[i + k - 1] = sub[k]

\* the first position >= i where sub occurs in s, 0 when there is none
\* (str.find(sub, i - 1) + 1, for a non-empty sub)
Find(s, sub, i) ==
    LET hits == {j \in i..(Len(s) - Len(sub) + 1) : MatchAt(s, sub, j)}
    IN  IF hits = {} THEN 0 ELSE CHOOSE j \in hits : \A k \in hits : j <= k

\* sub in s
Contains(s, sub) == Find(s, sub, 1) # 0

\* the start positions of the non-overlapping occurrences of sub in s, scanning
\* left to right from i, as str.replace, str.count, str.split and re.sub scan
RECURSIVE Occurrences(_, _, _)
Occurrences(s, sub, i) ==
    LET j == Find(s, sub, i)
    IN  IF j = 0 THEN <<>> ELSE <<j>> \o Occurrences(s, sub, j + Len(sub))

\* s.count(sub)
StrCount(s, sub) == Len(Occurrences(s, sub, 1))

\* s with each occurrence listed in occ (of length n) replaced by new, from
\* position i on
RECURSIVE Splice(_, _, _, _, _)
Splice(s, occ, n, new, i) ==
    IF occ = <<>>
    THEN SubSeq(s, i, Len(s))
    ELSE SubSeq(s, i, Head(occ) - 1) \o new \o Splice(s, Tail(occ), n, new, Head(occ) + n)

\* s.replace(old, new), old not empty
StrReplace(s, old, new) == Splice(s, Occurrences(s, old, 1), Len(old), new, 1)

\* str.isspace() of one character
WHITESPACE ==
    {" ", "\t", "\n", "U+000B", "U+000C", "U+000D", "U+001C", "U+001D", "U+001E", "U+001F",
     "U+0085", "U+00A0", "U+1680", "U+2000", "U+2001", "U+2002", "U+2003", "U+2004",
     "U+2005", "U+2006", "U+2007", "U+2008", "U+2009", "U+200A", "U+2028", "U+2029",
     "U+202F", "U+205F", "U+3000"}

\* s.strip()
StrStrip(s) ==
    LET keep == {i \in 1..Len(s) : s[i] \notin WHITESPACE}
    IN  IF keep = {}
        THEN <<>>
        ELSE SubSeq(s, CHOOSE i \in keep : \A k \in keep : i <= k,
                       CHOOSE i \in keep : \A k \in keep : i >= k)

\* the pieces of s between the occurrences listed in occ, from position i on
RECURSIVE Pieces(_, _, _, _)
Pieces(s, occ, n, i) ==
    IF occ = <<>>
    THEN <<SubSeq(s, i, Len(s))>>
    ELSE <<SubSeq(s, i, Head(occ) - 1)>> \o Pieces(s, Tail(occ), n, Head(occ) + n)

\* s.split(sep), sep not empty: always at least one piece
StrSplit(s, sep) == Pieces(s, Occurrences(s, sep, 1), Len(sep), 1)

DIGIT_CHARS == <<"0", "1", "2", "3", "4", "5", "6", "7", "8", "9">>

\* str(n) of an int n >= 0
RECURSIVE IntStr(_)
IntStr(n) ==
    IF n < 10 THEN <<DIGIT_CHARS[n + 1]>> ELSE IntStr(n \div 10) \o <<DIGIT_CHARS[(n % 10) + 1]>>

\* round(num / den, 1), den > 0, in tenths: the quotient of two ints is rounded
\* to the nearest tenth, a tie going to the even tenth (a tie needs a den that
\* is a multiple of 16; the float quotient is then exact when it is a multiple
\* of 1/4, and otherwise round() goes by the float nearest to it)
RoundTenths(num, den) ==
    LET q == (num * 10) \div den
        r == (num * 10) % den
    IN  IF 2 * r < den THEN q
        ELSE IF 2 * r > den THEN q + 1
        ELSE IF q % 2 = 0 THEN q ELSE q + 1

\* f"{achievement_rate}": the float round(..., 1) prints with one decimal, the
\* int 0 of line 53 prints as "0"
FormatRate(rate) ==
    IF rate.float
    THEN IntStr(rate.tenths \div 10) \o <<".">> \o IntStr(rate.tenths % 10)
    ELSE IntStr(rate.tenths)

\* f"{achievement_rate}% ({achieved_count}/{total_tests})" of lines 63, 104, 127
RateAndCounts(rate, achieved, total, sep) ==
    FormatRate(rate) \o sep \o IntStr(achieved) \o <<"/">> \o IntStr(total) \o <<")">>

(***************************************************************************)
(* re.sub(r'(### ...)', repl, string) of lines 116-120.  The pattern has   *)
(* no special character besides the parentheses of group 1, so it matches  *)
(* the heading text wherever it occurs; repl is a replacement template,    *)
(* whose backslash escapes re compiles before it searches.                 *)
(***************************************************************************)
OCTDIGITS == {"0", "1", "2", "3", "4", "5", "6", "7"}

DIGITS == OCTDIGITS \cup {"8", "9"}

ASCII_LETTERS ==
    {"a", "b", "c", "d", "e", "f", "g", "h", "i", "j", "k", "l", "m", "n", "o", "p", "q",
     "r", "s", "t", "u", "v", "w", "x", "y", "z", "A", "B", "C", "D", "E", "F", "G", "H",
     "I", "J", "K", "L", "M", "N", "O", "P", "Q", "R", "S", "T", "U", "V", "W", "X", "Y",
     "Z"}

\* the template escapes that stand for one character: \a \b \f \n \r \t \v \\
ESCAPES ==
    [c \in {"a", "b", "f", "n", "r", "t", "v", "\\"} |->
        CASE c = "a" -> "U+0007"
          [] c = "b" -> "U+0008"
          [] c = "f" -> "U+000C"
          [] c = "n" -> "\n"
          [] c = "r" -> "U+000D"
          [] c = "t" -> "\t"
          [] c = "v" -> "U+000B"
          [] c = "\\" -> "\\"]

\* int(c) of a digit character
DigitValue(c) == CHOOSE d \in 0..9 : DIGIT_CHARS[d + 1] = c

\* int(s) of a non-empty string of digits, in the given base
RECURSIVE IntOf(_, _)
IntOf(s, base) ==
    IF Len(s) = 1
    THEN DigitValue(s[1])
    ELSE base * IntOf(SubSeq(s, 1, Len(s) - 1), base) + DigitValue(s[Len(s)])

CHR_TABLE ==
    <<
      "U+0000", "U+0001", "U+0002", "U+0003", "U+0004", "U+0005", "U+0006", "U+0007",
      "U+0008", "\t", "\n", "U+000B", "U+000C", "U+000D", "U+000E", "U+000F",
      "U+0010", "U+0011", "U+0012", "U+0013", "U+0014", "U+0015", "U+0016", "U+0017",
      "U+0018", "U+0019", "U+001A", "U+001B", "U+001C", "U+001D", "U+001E", "U+001F",
      " ", "!", "\"", "#", "$", "%", "&", "'",
      "(", ")", "*", "+", ",", "-", ".", "/",
      "0", "1", "2", "3", "4", "5", "6", "7",
      "8", "9", ":", ";", "<", "=", ">", "?",
      "@", "A", "B", "C", "D", "E", "F", "G",
      "H", "I", "J", "K", "L", "M", "N", "O",
      "P", "Q", "R", "S", "T", "U", "V", "W",
      "X", "Y", "Z", "[", "\\", "]", "^", "_",
      "U+0060", "a", "b", "c", "d", "e", "f", "g",
      "h", "i", "j", "k", "l", "m", "n", "o",
      "p", "q", "r", "s", "t", "u", "v", "w",
      "x", "y", "z", "{", "|", "}", "~", "U+007F",
      "U+0080", "U+0081", "U+0082", "U+0083", "U+0084", "U+0085", "U+0086", "U+0087",
      "U+0088", "U+0089", "U+008A", "U+008B", "U+008C", "U+008D", "U+008E", "U+008F",
      "U+0090", "U+0091", "U+0092", "U+0093", "U+0094", "U+0095", "U+0096", "U+0097",
      "U+0098", "U+0099", "U+009A", "U+009B", "U+009C", "U+009D", "U+009E", "U+009F",
      "U+00A0", "U+00A1", "U+00A2", "U+00A3", "U+00A4", "U+00A5", "U+00A6", "U+00A7",
      "U+00A8", "U+00A9", "U+00AA", "U+00AB", "U+00AC", "U+00AD", "U+00AE", "U+00AF",
      "U+00B0", "U+00B1", "U+00B2", "U+00B3", "U+00B4", "U+00B5", "U+00B6", "U+00B7",
      "U+00B8", "U+00B9", "U+00BA", "U+00BB", "U+00BC", "U+00BD", "U+00BE", "U+00BF",
      "U+00C0", "U+00C1", "U+00C2", "U+00C3", "U+00C4", "U+00C5", "U+00C6", "U+00C7",
      "U+00C8", "U+00C9", "U+00CA", "U+00CB", "U+00CC", "U+00CD", "U+00CE", "U+00CF",
      "U+00D0", "U+00D1", "U+00D2", "U+00D3", "U+00D4", "U+00D5", "U+00D6", "U+00D7",
      "U+00D8", "U+00D9", "U+00DA", "U+00DB", "U+00DC", "U+00DD", "U+00DE", "U+00DF",
      "U+00E0", "U+00E1", "U+00E2", "U+00E3", "U+00E4", "U+00E5", "U+00E6", "U+00E7",
      "U+00E8", "U+00E9", "U+00EA", "U+00EB", "U+00EC", "U+00ED", "U+00EE", "U+00EF",
      "U+00F0", "U+00F1", "U+00F2", "U+00F3", "U+00F4", "U+00F5", "U+00F6", "U+00F7",
      "U+00F8", "U+00F9", "U+00FA", "U+00FB", "U+00FC", "U+00FD", "U+00FE", "U+00FF"
    >>

\* chr(code) for code in 0..255
Chr(code) == CHR_TABLE[code + 1]

\* the character at position i of t, "" past the end (the tokenizer's s.next)
CharAt(t, i) == IF i >= 1 /\ i <= Len(t) THEN t[i] ELSE ""

BadEscape == [ok |-> FALSE, len |-> 1, group |-> -1, text |-> <<>>]

Literal(n, chars) == [ok |-> TRUE, len |-> n, group |-> -1, text |-> chars]

\* a reference to group index of a pattern with `groups` groups
GroupRef(n, index, groups) ==
    IF index > groups THEN BadEscape ELSE [ok |-> TRUE, len |-> n, group |-> index, text |-> <<>>]

\* the escape that starts with the backslash at position i of template t:
\* whether it compiles, how many characters it takes, and the group it names
\* or the text it stands for (sre_parse.parse_template)
TemplateEscape(t, i, groups) ==
    LET c  == CharAt(t, i + 1)
        c2 == CharAt(t, i + 2)
        c3 == CharAt(t, i + 3)
    IN  IF c = "" THEN BadEscape                       \* bad escape (end of pattern)
        ELSE IF c = "g"
        THEN LET close == Find(t, <<">">>, i + 3)
                 name  == SubSeq(t, i + 3, close - 1)
             IN  IF c2 # "<" \/ close = 0 \/ name = <<>> THEN BadEscape
                 ELSE IF \A k \in 1..Len(name) : name[k] \in DIGITS
                 THEN GroupRef(close - i + 1, IntOf(name, 10), groups)
                 ELSE BadEscape                        \* the pattern names no group
        ELSE IF c = "0"
        THEN IF c2 \in OCTDIGITS
             THEN IF c3 \in OCTDIGITS
                  THEN Literal(4, <<Chr(IntOf(<<c2, c3>>, 8) % 256)>>)
                  ELSE Literal(3, <<Chr(DigitValue(c2))>>)
             ELSE Literal(2, <<Chr(0)>>)
        ELSE IF c \in DIGITS
        THEN IF c2 \in DIGITS
             THEN IF c \in OCTDIGITS /\ c2 \in OCTDIGITS /\ c3 \in OCTDIGITS
                  THEN IF IntOf(<<c, c2, c3>>, 8) > 255
                       THEN BadEscape                  \* octal escape out of range
                       ELSE Literal(4, <<Chr(IntOf(<<c, c2, c3>>, 8))>>)
                  ELSE GroupRef(3, IntOf(<<c, c2>>, 10), groups)
             ELSE GroupRef(2, DigitValue(c), groups)
        ELSE IF c \in DOMAIN ESCAPES THEN Literal(2, <<ESCAPES[c]>>)
        ELSE IF c \in ASCII_LETTERS THEN BadEscape     \* bad escape \c
        ELSE Literal(2, <<"\\", c>>)

\* the template does not compile from position i on: re.error
RECURSIVE TemplateFails(_, _, _)
TemplateFails(t, i, groups) ==
    IF i > Len(t) THEN FALSE
    ELSE IF t[i] # "\\" THEN TemplateFails(t, i + 1, groups)
    ELSE LET e == TemplateEscape(t, i, groups)
         IN  ~e.ok \/ TemplateFails(t, i + e.len, groups)

\* the text a compiled template t stands for, from position i on, for a match
\* whose groups 0..n are the texts matched[1..n+1]
RECURSIVE Expand(_, _, _)
Expand(t, i, matched) ==
    IF i > Len(t) THEN <<>>
    ELSE IF t[i] # "\\" THEN <<t[i]>> \o Expand(t, i + 1, matched)
    ELSE LET e == TemplateEscape(t, i, Len(matched) - 1)
         IN  (IF e.group >= 0 THEN matched[e.group + 1] ELSE e.text)
                 \o Expand(t, i + e.len, matched)

\* re.sub(r'(### ...)', repl, string): raised is TRUE when re.error is raised,
\* else value is the string with every match replaced by the expanded template.
\* A repl without a backslash is taken literally.  Group 0 and group 1 are both
\* the whole match.
ReSub(repl, string) ==
    IF Contains(repl, <<"\\">>) /\ TemplateFails(repl, 1, 1)
    THEN [raised |-> TRUE, value |-> string]
    ELSE [raised |-> FALSE,
          value  |-> Splice(string, Occurrences(string, HEADING, 1), Len(HEADING),
                            Expand(repl, 1, <<HEADING, HEADING>>), 1)]

(***************************************************************************)
(* Bounds and inputs of the model.                                         *)
(***************************************************************************)
\* longest results text drawn from RESULTS_ALPHABET
MaxResultsLen == 3

\* longest analysis text drawn from ANALYSIS_ALPHABET
MaxAnalysisLen == 2

\* invocations of the script in a row, on the same three paths
MaxRuns == 2

SeqsUpTo(S, n) == UNION {[1..k -> S] : k \in 0..n}

PROGRAM_PATH == <<"f", ".", "p", "y">>

REPORT_PATH == <<"r", ".", "m", "d">>

RESULTS_PATH == <<"s", ".", "m", "d">>

ANALYSIS_PATH == <<"a", ".", "m", "d">>

PATHS == {REPORT_PATH, RESULTS_PATH, ANALYSIS_PATH}

\* sys.argv of length n: the program, the three paths, then arguments main ignores
\* (the constant 4 of line 13 is one more than the last index main reads)
ArgvOfLen(n) ==
    [k \in 1..n |->
        CASE k = 1 -> PROGRAM_PATH
          [] k = 2 -> REPORT_PATH
          [] k = 3 -> RESULTS_PATH
          [] k = 4 -> ANALYSIS_PATH
          [] OTHER -> <<"-", "v">>]

NL == <<"\n">>

\* a template with each placeholder once and the heading on a line of its own
TEMPLATE_FULL ==
    RESULTS_PLACEHOLDER \o NL \o HEADING \o NL \o ACHIEVEMENT_ANALYSIS_PLACEHOLDER \o NL
        \o PERFORMANCE_EVALUATION_PLACEHOLDER \o NL \o RECOMMENDATIONS_PLACEHOLDER \o NL
        \o CONCLUSION_PLACEHOLDER \o NL

\* each placeholder once, no heading
TEMPLATE_NO_HEADING ==
    RESULTS_PLACEHOLDER \o NL \o ACHIEVEMENT_ANALYSIS_PLACEHOLDER \o NL
        \o PERFORMANCE_EVALUATION_PLACEHOLDER \o NL \o RECOMMENDATIONS_PLACEHOLDER \o NL
        \o CONCLUSION_PLACEHOLDER

\* the heading on a line of its own, then inside a longer line ("#### ... (x)"),
\* and two placeholders
TEMPLATE_TWO_HEADINGS ==
    HEADING \o NL \o ACHIEVEMENT_ANALYSIS_PLACEHOLDER \o NL \o <<"#">> \o HEADING
        \o <<" ", "(", "x", ")">> \o NL \o CONCLUSION_PLACEHOLDER \o NL

\* each placeholder once, the results placeholder inside the letters of another
TEMPLATE_NESTED ==
    SubSeq(RESULTS_PLACEHOLDER, 1, 8) \o RESULTS_PLACEHOLDER \o SubSeq(RESULTS_PLACEHOLDER, 9, 19)
        \o NL \o ACHIEVEMENT_ANALYSIS_PLACEHOLDER \o PERFORMANCE_EVALUATION_PLACEHOLDER
        \o RECOMMENDATIONS_PLACEHOLDER \o CONCLUSION_PLACEHOLDER

\* each placeholder once, the last letter of one being the first of another
\* ("CONCLUSION_PLACEHOLDERESULTS_PLACEHOLDER")
TEMPLATE_OVERLAP ==
    CONCLUSION_PLACEHOLDER \o Tail(RESULTS_PLACEHOLDER) \o NL
        \o ACHIEVEMENT_ANALYSIS_PLACEHOLDER \o PERFORMANCE_EVALUATION_PLACEHOLDER
        \o RECOMMENDATIONS_PLACEHOLDER

TEMPLATES ==
    {TEMPLATE_FULL, TEMPLATE_NO_HEADING, TEMPLATE_TWO_HEADINGS, TEMPLATE_NESTED, TEMPLATE_OVERLAP}

RESULTS_ALPHABET == {"U+2705", "\n", "x"}

\* results texts paired with every analysis text: empty, one of two lines
\* reached, and one that names its own placeholder
RESULTS_SAMPLES == {<<>>, <<"U+2705", "\n", "x">>, RESULTS_PLACEHOLDER}

\* every text over the alphabet up to the bound, the samples, and one that
\* names a later placeholder
RESULTS_TEXTS ==
    SeqsUpTo(RESULTS_ALPHABET, MaxResultsLen) \cup RESULTS_SAMPLES
        \cup {<<"U+2705">> \o CONCLUSION_PLACEHOLDER}

ANALYSIS_ALPHABET == {"\\", "n", "1"}

\* analysis texts paired with every results text: plain, a backslash followed
\* by n between two letters, and one that names a placeholder
ANALYSIS_SAMPLES == {<<"x">>, <<"x", "\\", "n", "x">>, RECOMMENDATIONS_PLACEHOLDER}

\* every text over the alphabet up to the bound, the samples, and a backslash
\* followed by a letter that is no escape
ANALYSIS_TEXTS ==
    SeqsUpTo(ANALYSIS_ALPHABET, MaxAnalysisLen) \cup ANALYSIS_SAMPLES \cup {<<"\\", "x">>}

\* the lengths of sys.argv: too short (1 to 3), exact, and one argument too many
ARGV_LENGTHS == 1..5

\* a path that does not exist
NoFile == [exists |-> FALSE, text |-> <<>>]

File(text) == [exists |-> TRUE, text |-> text]

\* what may be behind a path: nothing, or a file holding one of the texts
FilesOf(texts) == {NoFile} \cup {File(t) : t \in texts}

(***************************************************************************)
(* State: the process (sys.argv, the locals of main, its position, what it *)
(* printed, its exit code), the files behind the three paths, and the      *)
(* file operations the process made.                                       *)
(***************************************************************************)
VARIABLES
    sys_argv,                \* sys.argv
    files,                   \* path -> [exists, text]
    pc,                      \* the statement main is at
    report_content,          \* locals of main; <<>> or 0 before they are assigned
    results_content,
    analysis_content,
    achieved_count,
    total_tests,
    achievement_rate,        \* [float, tenths]: the float tenths/10, or the int 0
    achievement_analysis,
    performance_evaluation,
    recommendations,
    conclusion,
    stdout,                  \* the lines printed
    exit_code,               \* -1 while running
    raised,                  \* the uncaught exception, "" when none
    io,                      \* <<operation, path>> of each file operation made
    run                      \* the number of this invocation

vars ==
    <<sys_argv, files, pc, report_content, results_content, analysis_content, achieved_count,
      total_tests, achievement_rate, achievement_analysis, performance_evaluation,
      recommendations, conclusion, stdout, exit_code, raised, io, run>>

locals ==
    <<report_content, results_content, analysis_content, achieved_count, total_tests,
      achievement_rate, achievement_analysis, performance_evaluation, recommendations,
      conclusion>>

\* sys.argv[k]
Argv(k) == sys_argv[k + 1]

\* a fresh process: nothing assigned, nothing printed, no file touched
ProcessStart ==
    /\ pc = "check_args"
    /\ report_content = <<>>
    /\ results_content = <<>>
    /\ analysis_content = <<>>
    /\ achieved_count = 0
    /\ total_tests = 0
    /\ achievement_rate = [float |-> FALSE, tenths |-> 0]
    /\ achievement_analysis = <<>>
    /\ performance_evaluation = <<>>
    /\ recommendations = <<>>
    /\ conclusion = <<>>
    /\ stdout = <<>>
    /\ exit_code = -1
    /\ raised = ""
    /\ io = <<>>

\* The first invocation: each of the three files is absent or holds one of the
\* input texts.  Every results text is paired with the sample analysis texts
\* and every analysis text with the sample results texts; a sys.argv other
\* than the exact one is paired with the samples only.
Init ==
    /\ ProcessStart
    /\ run = 1
    /\ sys_argv \in {ArgvOfLen(n) : n \in ARGV_LENGTHS}
    /\ \E report \in FilesOf(TEMPLATES), results \in FilesOf(RESULTS_TEXTS),
          analysis \in FilesOf(ANALYSIS_TEXTS) :
            /\ \/ results \in FilesOf(RESULTS_SAMPLES)
               \/ analysis \in FilesOf(ANALYSIS_SAMPLES)
            /\ Len(sys_argv) # 4 =>
                   /\ results \in FilesOf(RESULTS_SAMPLES)
                   /\ analysis \in FilesOf(ANALYSIS_SAMPLES)
            /\ files = [p \in PATHS |->
                           CASE p = REPORT_PATH -> report
                             [] p = RESULTS_PATH -> results
                             [] p = ANALYSIS_PATH -> analysis]

\* sys.exit(code), or the interpreter ending after an uncaught exception
Exit(code, exception) ==
    /\ pc' = "exit"
    /\ exit_code' = code
    /\ raised' = exception

\* print(line)
PrintLines(lines) == stdout' = stdout \o lines

\* lines 13-16
CheckArgs ==
    /\ pc = "check_args"
    /\ IF Len(sys_argv) < 4
       THEN /\ PrintLines(<<MSG_ARGS, MSG_USAGE_HEAD \o Argv(0) \o MSG_USAGE_TAIL>>)
            /\ Exit(1, "")
       ELSE /\ pc' = "check_report"
            /\ UNCHANGED <<stdout, exit_code, raised>>
    /\ UNCHANGED <<sys_argv, files, locals, io, run>>

\* if not os.path.exists(path): print(message + path); sys.exit(1)
CheckExists(at, path, message, next) ==
    /\ pc = at
    /\ io' = Append(io, <<"exists", path>>)
    /\ IF ~files[path].exists
       THEN /\ PrintLines(<<message \o path>>)
            /\ Exit(1, "")
       ELSE /\ pc' = next
            /\ UNCHANGED <<stdout, exit_code, raised>>
    /\ UNCHANGED <<sys_argv, files, locals, run>>

\* lines 23-25
CheckReport == CheckExists("check_report", Argv(1), MSG_NO_REPORT, "check_results")

\* CheckResults testing the analysis path in place of the results path
CheckResults_WrongPath ==
    CheckExists("check_results", Argv(3), MSG_NO_ANALYSIS, "check_analysis")

\* lines 27-29
CheckResults == CheckExists("check_results", Argv(2), MSG_NO_RESULTS, "check_analysis")

\* lines 31-33
CheckAnalysis == CheckExists("check_analysis", Argv(3), MSG_NO_ANALYSIS, "read_report")

\* lines 36-37 (the files hold text: a file that is not UTF-8 is not modelled)
ReadReport ==
    /\ pc = "read_report"
    /\ io' = Append(io, <<"read", Argv(1)>>)
    /\ report_content' = files[Argv(1)].text
    /\ pc' = "read_results"
    /\ UNCHANGED <<sys_argv, files, results_content, analysis_content, achieved_count,
                   total_tests, achievement_rate, achievement_analysis,
                   performance_evaluation, recommendations, conclusion, stdout, exit_code,
                   raised, run>>

\* lines 39-40
ReadResults ==
    /\ pc = "read_results"
    /\ io' = Append(io, <<"read", Argv(2)>>)
    /\ results_content' = files[Argv(2)].text
    /\ pc' = "read_analysis"
    /\ UNCHANGED <<sys_argv, files, report_content, analysis_content, achieved_count,
                   total_tests, achievement_rate, achievement_analysis,
                   performance_evaluation, recommendations, conclusion, stdout, exit_code,
                   raised, run>>

\* lines 42-43
ReadAnalysis ==
    /\ pc = "read_analysis"
    /\ io' = Append(io, <<"read", Argv(3)>>)
    /\ analysis_content' = files[Argv(3)].text
    /\ pc' = "metrics"
    /\ UNCHANGED <<sys_argv, files, report_content, results_content, achieved_count,
                   total_tests, achievement_rate, achievement_analysis,
                   performance_evaluation, recommendations, conclusion, stdout, exit_code,
                   raised, run>>

\* line 46
AchievedCount(results) == StrCount(results, CHECK_MARK)

\* TotalTests counting the lines that are not empty
TotalTests_NonEmptyLines(results) ==
    Len(SelectSeq(StrSplit(StrStrip(results), NL), LAMBDA line : line # <<>>))

\* line 47
TotalTests(results) == Len(StrSplit(StrStrip(results), NL))

\* lines 50-53
AchievementRate(achieved, total) ==
    IF total > 0
    THEN [float |-> TRUE, tenths |-> RoundTenths(achieved * 100, total)]
    ELSE [float |-> FALSE, tenths |-> 0]

\* lines 45-53
Metrics ==
    /\ pc = "metrics"
    /\ achieved_count' = AchievedCount(results_content)
    /\ total_tests' = TotalTests(results_content)
    /\ achievement_rate' = AchievementRate(achieved_count', total_tests')
    /\ pc' = "sections"
    /\ UNCHANGED <<sys_argv, files, report_content, results_content, analysis_content,
                   achievement_analysis, performance_evaluation, recommendations, conclusion,
                   stdout, exit_code, raised, io, run>>

\* AchievementAnalysis with the partial branch guarded by achieved < total
AchievementAnalysis_Bounded(achieved, total, rate) ==
    IF achieved = total THEN ANALYSIS_ALL
    ELSE IF achieved > 0 /\ achieved < total
    THEN ANALYSIS_PARTIAL_HEAD \o RateAndCounts(rate, achieved, total, <<"%", " ", "(">>)
             \o ANALYSIS_PARTIAL_TAIL
    ELSE ANALYSIS_NONE

\* lines 56-69
AchievementAnalysis(achieved, total, rate) ==
    IF achieved = total THEN ANALYSIS_ALL
    ELSE IF achieved > 0
    THEN ANALYSIS_PARTIAL_HEAD \o RateAndCounts(rate, achieved, total, <<"%", " ", "(">>)
             \o ANALYSIS_PARTIAL_TAIL
    ELSE ANALYSIS_NONE

\* lines 81-94
Recommendations(achieved, total) ==
    IF achieved = total THEN RECOMMENDATIONS_KEEP ELSE RECOMMENDATIONS_IMPROVE

\* Conclusion taking the success branch whenever achieved >= total
Conclusion_AtLeast(achieved, total, rate) ==
    IF achieved >= total
    THEN CONCLUSION_SUCCESS
    ELSE CONCLUSION_PARTIAL_HEAD
             \o RateAndCounts(rate, achieved, total, <<"%", "*", "*", " ", "(">>)
             \o CONCLUSION_PARTIAL_TAIL

\* lines 97-106
Conclusion(achieved, total, rate) ==
    IF achieved = total
    THEN CONCLUSION_SUCCESS
    ELSE CONCLUSION_PARTIAL_HEAD
             \o RateAndCounts(rate, achieved, total, <<"%", "*", "*", " ", "(">>)
             \o CONCLUSION_PARTIAL_TAIL

\* lines 55-106
Sections ==
    /\ pc = "sections"
    /\ achievement_analysis' = AchievementAnalysis(achieved_count, total_tests, achievement_rate)
    /\ performance_evaluation' = PERFORMANCE_EVALUATION
    /\ recommendations' = Recommendations(achieved_count, total_tests)
    /\ conclusion' = Conclusion(achieved_count, total_tests, achievement_rate)
    /\ pc' = "substitute"
    /\ UNCHANGED <<sys_argv, files, report_content, results_content, analysis_content,
                   achieved_count, total_tests, achievement_rate, stdout, exit_code, raised,
                   io, run>>

\* Substituted without the last replacement
Substituted_SkipsConclusion(report, results, analysis, evaluation, recs, concl) ==
    LET r1 == StrReplace(report, RESULTS_PLACEHOLDER, results)
        r2 == StrReplace(r1, ACHIEVEMENT_ANALYSIS_PLACEHOLDER, analysis)
        r3 == StrReplace(r2, PERFORMANCE_EVALUATION_PLACEHOLDER, evaluation)
    IN  StrReplace(r3, RECOMMENDATIONS_PLACEHOLDER, recs)

\* lines 109-113: the five replacements, one after the other
Substituted(report, results, analysis, evaluation, recs, concl) ==
    LET r1 == StrReplace(report, RESULTS_PLACEHOLDER, results)
        r2 == StrReplace(r1, ACHIEVEMENT_ANALYSIS_PLACEHOLDER, analysis)
        r3 == StrReplace(r2, PERFORMANCE_EVALUATION_PLACEHOLDER, evaluation)
        r4 == StrReplace(r3, RECOMMENDATIONS_PLACEHOLDER, recs)
    IN  StrReplace(r4, CONCLUSION_PLACEHOLDER, concl)

\* lines 108-113
Substitute ==
    /\ pc = "substitute"
    /\ report_content' = Substituted(report_content, results_content, achievement_analysis,
                                     performance_evaluation, recommendations, conclusion)
    /\ pc' = "insert"
    /\ UNCHANGED <<sys_argv, files, results_content, analysis_content, achieved_count,
                   total_tests, achievement_rate, achievement_analysis,
                   performance_evaluation, recommendations, conclusion, stdout, exit_code,
                   raised, io, run>>

\* InsertAnalysis leaving alone a report in which the analysis already follows
\* the heading
InsertAnalysis_IfAbsent(report, analysis) ==
    IF Contains(report, HEADING \o NL \o analysis)
    THEN [raised |-> FALSE, value |-> report]
    ELSE ReSub(REPL_PREFIX \o analysis, report)

\* lines 116-120: the call of re.sub
InsertAnalysis(report, analysis) == ReSub(REPL_PREFIX \o analysis, report)

\* lines 115-120: an re.error is not caught, the interpreter prints the
\* traceback on stderr and ends with exit code 1
Insert ==
    /\ pc = "insert"
    /\ LET result == InsertAnalysis(report_content, analysis_content)
       IN  IF result.raised
           THEN /\ Exit(1, "re.error")
                /\ UNCHANGED report_content
           ELSE /\ report_content' = result.value
                /\ pc' = "write"
                /\ UNCHANGED <<exit_code, raised>>
    /\ UNCHANGED <<sys_argv, files, results_content, analysis_content, achieved_count,
                   total_tests, achievement_rate, achievement_analysis,
                   performance_evaluation, recommendations, conclusion, stdout, io, run>>

\* WriteReport opening the results path for writing
WriteReport_ToResults ==
    /\ pc = "write"
    /\ io' = Append(io, <<"write", Argv(2)>>)
    /\ files' = [files EXCEPT ![Argv(2)] = File(report_content)]
    /\ pc' = "summary"
    /\ UNCHANGED <<sys_argv, locals, stdout, exit_code, raised, run>>

\* lines 123-124
WriteReport ==
    /\ pc = "write"
    /\ io' = Append(io, <<"write", Argv(1)>>)
    /\ files' = [files EXCEPT ![Argv(1)] = File(report_content)]
    /\ pc' = "summary"
    /\ UNCHANGED <<sys_argv, locals, stdout, exit_code, raised, run>>

\* lines 126-127, then main returns and the interpreter ends with exit code 0
Summary ==
    /\ pc = "summary"
    /\ PrintLines(<<MSG_DONE \o Argv(1),
                    MSG_RATE \o RateAndCounts(achievement_rate, achieved_count, total_tests,
                                              <<"%", " ", "(">>)>>)
    /\ Exit(0, "")
    /\ UNCHANGED <<sys_argv, files, locals, io, run>>

\* lines 129-130: the script is invoked again with the same arguments, on the
\* files as the run that just succeeded left them
Rerun ==
    /\ pc = "exit"
    /\ exit_code = 0
    /\ run < MaxRuns
    /\ run' = run + 1
    /\ pc' = "check_args"
    /\ report_content' = <<>>
    /\ results_content' = <<>>
    /\ analysis_content' = <<>>
    /\ achieved_count' = 0
    /\ total_tests' = 0
    /\ achievement_rate' = [float |-> FALSE, tenths |-> 0]
    /\ achievement_analysis' = <<>>
    /\ performance_evaluation' = <<>>
    /\ recommendations' = <<>>
    /\ conclusion' = <<>>
    /\ stdout' = <<>>
    /\ exit_code' = -1
    /\ raised' = ""
    /\ io' = <<>>
    /\ UNCHANGED <<sys_argv, files>>

Next ==
    \/ CheckArgs
    \/ CheckReport
    \/ CheckResults
    \/ CheckAnalysis
    \/ ReadReport
    \/ ReadResults
    \/ ReadAnalysis
    \/ Metrics
    \/ Sections
    \/ Substitute
    \/ Insert
    \/ WriteReport
    \/ Summary
    \/ Rerun

Spec == Init /\ [][Next]_vars
(***************************************************************************)
(* Properties of a run.                                                    *)
(***************************************************************************)
\* main has computed the metrics
MetricsDone == pc \in {"sections", "substitute", "insert", "write", "summary"}

\* main has chosen the sections
SectionsDone == pc \in {"substitute", "insert", "write", "summary"}

StartsWith(s, prefix) == MatchAt(s, prefix, 1)

\* the positions k in 1..3 whose path sys.argv[k] names no file
MissingArgs == {k \in 1..3 : ~files[Argv(k)].exists}

NOT_FOUND == <<MSG_NO_REPORT, MSG_NO_RESULTS, MSG_NO_ANALYSIS>>

\* what a run that fails its k-th existence check has printed and done
FailsAt(k) ==
    /\ stdout = <<NOT_FOUND[k] \o Argv(k)>>
    /\ io = [i \in 1..k |-> <<"exists", Argv(i)>>]

\* C1: the checks run in the order argument count, report, results, analysis;
\* the run ends with exit code 1 at the first one that fails and has printed
\* that check's diagnostic and nothing else, whatever else is missing.
C1_FirstFailedCheckReported ==
    /\ pc # "exit" => stdout = <<>>
    /\ (pc = "exit" /\ Len(sys_argv) < 4) =>
           /\ exit_code = 1
           /\ stdout = <<MSG_ARGS, MSG_USAGE_HEAD \o PROGRAM_PATH \o MSG_USAGE_TAIL>>
           /\ io = <<>>
    /\ (pc = "exit" /\ Len(sys_argv) >= 4 /\ MissingArgs # {}) =>
           /\ exit_code = 1
           /\ \E k \in MissingArgs :
                 /\ \A j \in MissingArgs : k <= j
                 /\ FailsAt(k)
    /\ (pc = "exit" /\ exit_code = 1 /\ raised = "") =>
           Len(sys_argv) < 4 \/ MissingArgs # {}

\* a run stopped at the results check although the analysis file is missing too
C1_Witness ==
    /\ pc = "exit"
    /\ Len(sys_argv) >= 4
    /\ MissingArgs = {2, 3}
    /\ stdout = <<MSG_NO_RESULTS \o RESULTS_PATH>>

\* the file operations of a complete run, in order
ALL_IO ==
    <<<<"exists", REPORT_PATH>>, <<"exists", RESULTS_PATH>>, <<"exists", ANALYSIS_PATH>>,
      <<"read", REPORT_PATH>>, <<"read", RESULTS_PATH>>, <<"read", ANALYSIS_PATH>>,
      <<"write", REPORT_PATH>>>>

\* C2: in every step the file operations made so far are the first ones of:
\* three existence checks, three reads, one write of the report; the results
\* and analysis files never change, the report file changes only in the step
\* that makes the write, and a run that ends with exit code 1 without an
\* exception has read no file.
C2_OneWriteAfterChecksAndReads ==
    [][/\ io' = SubSeq(ALL_IO, 1, Len(io'))
       /\ files'[RESULTS_PATH] = files[RESULTS_PATH]
       /\ files'[ANALYSIS_PATH] = files[ANALYSIS_PATH]
       /\ files'[REPORT_PATH] # files[REPORT_PATH] => io = SubSeq(ALL_IO, 1, 6) /\ io' = ALL_IO
       /\ (pc' = "exit" /\ exit_code' = 1 /\ raised' = "") =>
              \A i \in 1..Len(io') : io'[i][1] = "exists"]_vars

\* a run that has overwritten the report with a different text
C2_Witness ==
    /\ pc = "summary"
    /\ run = 1
    /\ io = ALL_IO
    /\ files[REPORT_PATH].text = report_content
    /\ report_content # TEMPLATE_FULL
    /\ StartsWith(report_content, results_content)
    /\ Len(results_content) > 0

\* the achievement block is the partial-success message, with these counts
IsPartialMessage(text, achieved, total) ==
    /\ StartsWith(text, ANALYSIS_PARTIAL_HEAD)
    /\ Contains(text, <<"%", " ", "(">> \o IntStr(achieved) \o <<"/">> \o IntStr(total) \o <<")">>)

\* C3 as claimed: the full-success message exactly when achievedCount ==
\* totalTests, the partial-success message exactly when 0 < achievedCount <
\* totalTests, the full-failure message exactly when achievedCount == 0.
C3_AsClaimed ==
    SectionsDone =>
        /\ achievement_analysis = ANALYSIS_ALL <=> achieved_count = total_tests
        /\ IsPartialMessage(achievement_analysis, achieved_count, total_tests)
               <=> (0 < achieved_count /\ achieved_count < total_tests)
        /\ achievement_analysis = ANALYSIS_NONE <=> achieved_count = 0

\* C3, amended: the full-success message exactly when achievedCount ==
\* totalTests, the full-failure message exactly when achievedCount == 0, and
\* the partial-success message in every other case, which includes
\* achievedCount > totalTests.
C3_ThreeWayBranch ==
    SectionsDone =>
        /\ achievement_analysis = ANALYSIS_ALL <=> achieved_count = total_tests
        /\ IsPartialMessage(achievement_analysis, achieved_count, total_tests)
               <=> (achieved_count > 0 /\ achieved_count # total_tests)
        /\ achievement_analysis = ANALYSIS_NONE <=> achieved_count = 0

\* two markers on one line: the partial-success message with a rate of 200.0%
C3_Witness ==
    /\ SectionsDone
    /\ results_content = <<"U+2705", "U+2705">>
    /\ achieved_count = 2
    /\ total_tests = 1
    /\ IsPartialMessage(achievement_analysis, 2, 1)
    /\ Contains(achievement_analysis, <<"2", "0", "0", ".", "0", "%">>)

\* C9: the maintenance tips and the success conclusion exactly when
\* achievedCount == totalTests (the case of the full-success message);
\* otherwise the five improvement tips and the partial-style conclusion with
\* the rate and the counts, and with rate 0.0 and 0 reached when achievedCount
\* == 0.
C9_RecommendationsAndConclusion ==
    SectionsDone =>
        /\ recommendations = RECOMMENDATIONS_KEEP <=> achieved_count = total_tests
        /\ conclusion = CONCLUSION_SUCCESS <=> achieved_count = total_tests
        /\ recommendations = RECOMMENDATIONS_KEEP <=> achievement_analysis = ANALYSIS_ALL
        /\ achieved_count # total_tests =>
               /\ recommendations = RECOMMENDATIONS_IMPROVE
               /\ Contains(recommendations, <<"\n", "5", ".", " ">>)
               /\ StartsWith(conclusion, CONCLUSION_PARTIAL_HEAD)
               /\ Contains(conclusion,
                           FormatRate(achievement_rate) \o <<"%", "*", "*", " ", "(">>
                               \o IntStr(achieved_count) \o <<"/">> \o IntStr(total_tests)
                               \o <<")">>)
        /\ achieved_count = 0 =>
               /\ achievement_analysis = ANALYSIS_NONE
               /\ Contains(conclusion,
                           <<"*", "*", "0", ".", "0", "%", "*", "*", " ", "(", "0", "/">>
                               \o IntStr(total_tests) \o <<")">>)

\* no marker on two lines: improvement tips and the partial-style conclusion
C9_Witness ==
    /\ SectionsDone
    /\ achieved_count = 0
    /\ total_tests = 2
    /\ recommendations = RECOMMENDATIONS_IMPROVE
    /\ StartsWith(conclusion, CONCLUSION_PARTIAL_HEAD)

\* C10: totalTests is at least 1 for every results text, so the rate is always
\* the rounded quotient; a results text that is empty or all whitespace gives
\* achievedCount = 0 and totalTests = 1, the full-failure message, never the
\* full-success one, and the counts 0/1.
C10_TotalTestsAtLeastOne ==
    /\ MetricsDone =>
           /\ total_tests >= 1
           /\ achievement_rate.float
    /\ (MetricsDone /\ \A i \in 1..Len(results_content) : results_content[i] \in WHITESPACE) =>
           /\ achieved_count = 0
           /\ total_tests = 1
           /\ achievement_rate.tenths = 0
           /\ SectionsDone => achievement_analysis = ANALYSIS_NONE
    /\ (pc = "exit" /\ exit_code = 0
           /\ \A i \in 1..Len(results_content) : results_content[i] \in WHITESPACE) =>
           stdout[2] = MSG_RATE \o <<"0", ".", "0", "%", " ", "(", "0", "/", "1", ")">>

\* the run on an empty results file has printed its summary
C10_Witness ==
    /\ pc = "exit"
    /\ exit_code = 0
    /\ files[RESULTS_PATH] = File(<<>>)
    /\ achieved_count = 0
    /\ total_tests = 1

TOKENS ==
    <<RESULTS_PLACEHOLDER, ACHIEVEMENT_ANALYSIS_PLACEHOLDER,
      PERFORMANCE_EVALUATION_PLACEHOLDER, RECOMMENDATIONS_PLACEHOLDER, CONCLUSION_PLACEHOLDER>>

\* the characters the placeholder tokens are written with
TOKEN_CHARS == UNION {{TOKENS[k][i] : i \in 1..Len(TOKENS[k])} : k \in 1..5}

\* some placeholder token occurs in the text
AnyToken(text) == \E k \in 1..5 : Contains(text, TOKENS[k])

\* each placeholder token occurs at exactly one position of the text
EachTokenOnce(text) ==
    \A k \in 1..5 : Cardinality({j \in 1..Len(text) : MatchAt(text, TOKENS[k], j)}) = 1

\* the position of token k in a text that has it
TokenAt(text, k) == Find(text, TOKENS[k], 1)

\* no two of the five occurrences share a character
TokensApart(text) ==
    \A k, l \in 1..5 :
        k # l => \/ TokenAt(text, k) + Len(TOKENS[k]) <= TokenAt(text, l)
                 \/ TokenAt(text, l) + Len(TOKENS[l]) <= TokenAt(text, k)

\* the text from position i on, with the occurrence of every token k in todo
\* replaced by texts[k], all at once
RECURSIVE FilledFrom(_, _, _, _)
FilledFrom(text, texts, todo, i) ==
    IF todo = {}
    THEN SubSeq(text, i, Len(text))
    ELSE LET k == CHOOSE k \in todo : \A l \in todo : TokenAt(text, k) <= TokenAt(text, l)
         IN  SubSeq(text, i, TokenAt(text, k) - 1) \o texts[k]
                 \o FilledFrom(text, texts, todo \ {k}, TokenAt(text, k) + Len(TOKENS[k]))

\* the five texts main puts in the place of the tokens
Replacements ==
    <<results_content, achievement_analysis, performance_evaluation, recommendations,
      conclusion>>

\* the report file still holds the template of this run, each token once;
\* after the substitution each token's place holds its replacement text, none
\* of them empty, and the text about to be written holds no token
TokensReplaced ==
    /\ pc = "insert" =>
           /\ report_content = FilledFrom(files[REPORT_PATH].text, Replacements, 1..5, 1)
           /\ \A k \in 1..5 : Replacements[k] # <<>>
    /\ pc = "write" => ~AnyToken(report_content)

\* C4 as claimed: for a template with each of the five tokens exactly once and
\* every results and analysis text, no token occurs in the final output and
\* each token's position holds non-empty replacement text.
C4_AsClaimed == EachTokenOnce(files[REPORT_PATH].text) => TokensReplaced

NoTokenChar(text) == \A i \in 1..Len(text) : text[i] \notin TOKEN_CHARS

\* the inputs for which C4 holds: the tokens of the template do not overlap,
\* the results text is not empty, neither text has a character of the tokens,
\* and the analysis text has no backslash
C4_Inputs ==
    /\ pc \in {"insert", "write"}
    /\ results_content # <<>>
    /\ NoTokenChar(results_content)
    /\ NoTokenChar(analysis_content)
    /\ ~Contains(analysis_content, <<"\\">>)
    /\ EachTokenOnce(files[REPORT_PATH].text)
    /\ TokensApart(files[REPORT_PATH].text)

\* C4, amended: for a template with each of the five tokens exactly once, no
\* two overlapping, a non-empty results text, and results and analysis texts
\* without a character of the tokens and (analysis) without a backslash, no
\* token occurs in the final output and each token's position holds its
\* non-empty replacement text.
C4_TokensReplaced == C4_Inputs => TokensReplaced

\* the full template, filled and with the analysis inserted, about to be written
C4_Witness ==
    /\ C4_Inputs
    /\ pc = "write"
    /\ files[REPORT_PATH].text = TEMPLATE_FULL
    /\ results_content = <<"U+2705", "\n", "x">>
    /\ Contains(report_content, HEADING \o NL \o analysis_content \o NL \o achievement_analysis)
    /\ Contains(report_content, conclusion)

\* position j starts a line of the text that is exactly the heading
HeadingLineAt(text, j) ==
    /\ MatchAt(text, HEADING, j)
    /\ j = 1 \/ text[j - 1] = "\n"
    /\ j + Len(HEADING) > Len(text) \/ text[j + Len(HEADING)] = "\n"

HasHeadingLine(text) == \E j \in 1..Len(text) : HeadingLineAt(text, j)

\* the text with the analysis as a new line after the first line that is
\* exactly the heading, unchanged when there is no such line
AfterFirstHeadingLine(text, analysis) ==
    IF ~HasHeadingLine(text)
    THEN text
    ELSE LET j == CHOOSE j \in 1..Len(text) :
                      /\ HeadingLineAt(text, j)
                      /\ \A k \in 1..Len(text) : HeadingLineAt(text, k) => j <= k
         IN  SubSeq(text, 1, j + Len(HEADING) - 1) \o NL \o analysis
                 \o SubSeq(text, j + Len(HEADING), Len(text))

\* C5 as claimed (for an analysis text without a backslash, which re.sub
\* inserts as it is): the insertion step puts the analysis once, as a new line
\* after the first line exactly equal to the heading; a second heading, or one
\* inside a longer line, gets no insertion.
C5_AsClaimed ==
    [][(pc = "insert" /\ ~Contains(analysis_content, <<"\\">>)) =>
           /\ pc' = "write"
           /\ report_content' = AfterFirstHeadingLine(report_content, analysis_content)]_vars

\* C6 as claimed: for every analysis text the insertion step does not fail and
\* the characters placed after the heading are the analysis text itself.
C6_AsClaimed ==
    [][pc = "insert" =>
           /\ pc' = "write"
           /\ report_content' =
                  StrReplace(report_content, HEADING, HEADING \o NL \o analysis_content)]_vars

\* C7 as claimed: when the substituted text has no heading, the insertion step
\* changes nothing and raises nothing, the report file is overwritten with the
\* substituted text and the run ends with exit code 0.
C7_AsClaimed ==
    (pc \in {"write", "summary", "exit"} /\ Len(io) >= 6 /\ ~Contains(report_content, HEADING)) =>
        /\ raised = ""
        /\ pc = "write" =>
               report_content =
                   Substituted(files[REPORT_PATH].text, results_content, achievement_analysis,
                               performance_evaluation, recommendations, conclusion)
        /\ pc = "exit" =>
               /\ exit_code = 0
               /\ io = ALL_IO
               /\ files[REPORT_PATH].text = report_content

\* the report file holds the output of an earlier run, with no token and with
\* a line that is the heading, and the run is about to substitute, insert or
\* write
C8_OwnOutput ==
    /\ run >= 2
    /\ pc \in {"substitute", "insert", "write"}
    /\ ~AnyToken(files[REPORT_PATH].text)
    /\ HasHeadingLine(files[REPORT_PATH].text)

\* C8: a run on the output of an earlier run, with the same results and
\* analysis files, when that output has no token and still has the heading
\* line, substitutes nothing, does not fail, and writes that output with the
\* analysis inserted once more: a longer text than the one it read.
C8_SecondRunInsertsAgain ==
    [][C8_OwnOutput =>
           /\ pc = "substitute" => report_content' = files[REPORT_PATH].text
           /\ pc = "insert" => pc' = "write"
           /\ pc = "write" =>
                  /\ files'[REPORT_PATH].text # files[REPORT_PATH].text
                  /\ Len(files'[REPORT_PATH].text) > Len(files[REPORT_PATH].text)
                  /\ files'[REPORT_PATH].text =
                         ReSub(REPL_PREFIX \o files[ANALYSIS_PATH].text,
                               files[REPORT_PATH].text).value]_vars

\* the second run has written the analysis "x" twice after the heading
C8_Witness ==
    /\ run = 2
    /\ pc = "summary"
    /\ analysis_content = <<"x">>
    /\ ~AnyToken(files[REPORT_PATH].text)
    /\ Contains(files[REPORT_PATH].text, HEADING \o <<"\n", "x", "\n", "x", "\n">>)
====
